---------------------------- MODULE Spec2Model ----------------------------
(***************************************************************************)
(* A model of src/stock_dashboard.py: the Update handler of the dashboard  *)
(* (fetch, process_data, add_technical_indicators, calculate_metric, the   *)
(* metric row and the charts) and the pure functions it calls.             *)
(*                                                                         *)
(* Numbers.  The program computes in float64; the model computes the same  *)
(* expressions exactly.  A number is NaN or (n + q*sqrt(r)) / d with n, q  *)
(* signed integers of any size, r a square-free radicand and d a positive  *)
(* integer.  Rounding is not modelled, so "equal" below means equal as     *)
(* reals.  Prices and volumes are integer ticks.                           *)
(*                                                                         *)
(* Libraries.  pandas and ta are not part of the repository; the operators *)
(* named after their functions follow the libraries' own definitions       *)
(* (pandas rolling/ewm/ffill/diff/squeeze, ta 0.11 trend, momentum and     *)
(* volatility) for the arguments stock_dashboard.py passes.                *)
(***************************************************************************)
EXTENDS Integers, Sequences, FiniteSets, TLC

VARIABLES pc, ticker, time_period, data, metrics, errors, shown, calls, normalized,
          watched, uncaught

vars == <<pc, ticker, time_period, data, metrics, errors, shown, calls, normalized,
          watched, uncaught>>

-----------------------------------------------------------------------------
(* Unbounded naturals: little-endian limbs in base Base, no leading zero    *)
(* limb; the empty sequence is 0.                                           *)

Base == 10^4

RECURSIVE MagNorm(_)
MagNorm(m) ==
    IF m = <<>> THEN <<>>
    ELSE IF m[Len(m)] = 0 THEN MagNorm(SubSeq(m, 1, Len(m) - 1))
    ELSE m

RECURSIVE MagOfNat(_)
MagOfNat(k) == IF k = 0 THEN <<>> ELSE <<k % Base>> \o MagOfNat(k \div Base)

RECURSIVE MagAddC(_, _, _)
MagAddC(a, b, carry) ==
    IF a = <<>> /\ b = <<>> THEN (IF carry = 0 THEN <<>> ELSE <<carry>>)
    ELSE LET x == IF a = <<>> THEN 0 ELSE a[1]
             y == IF b = <<>> THEN 0 ELSE b[1]
             t == x + y + carry
         IN  <<t % Base>> \o MagAddC(IF a = <<>> THEN a ELSE Tail(a),
                                      IF b = <<>> THEN b ELSE Tail(b),
                                      t \div Base)

MagAdd(a, b) == MagAddC(a, b, 0)

\* a - b for a >= b, before normalisation
RECURSIVE MagSubB(_, _, _)
MagSubB(a, b, borrow) ==
    IF a = <<>> THEN <<>>
    ELSE LET y == IF b = <<>> THEN 0 ELSE b[1]
             t == a[1] - y - borrow
         IN  <<IF t < 0 THEN t + Base ELSE t>>
             \o MagSubB(Tail(a), IF b = <<>> THEN b ELSE Tail(b),
                        IF t < 0 THEN 1 ELSE 0)

MagSub(a, b) == MagNorm(MagSubB(a, b, 0))

\* -1, 0, 1 as a < b, a = b, a > b
RECURSIVE MagCmpAt(_, _, _)
MagCmpAt(a, b, i) ==
    IF i = 0 THEN 0
    ELSE IF a[i] < b[i] THEN -1
    ELSE IF a[i] > b[i] THEN 1
    ELSE MagCmpAt(a, b, i - 1)

MagCmp(a, b) ==
    IF Len(a) < Len(b) THEN -1
    ELSE IF Len(a) > Len(b) THEN 1
    ELSE MagCmpAt(a, b, Len(a))

\* m * k for one limb k
RECURSIVE MagMulLimbC(_, _, _)
MagMulLimbC(m, k, carry) ==
    IF m = <<>> THEN (IF carry = 0 THEN <<>> ELSE <<carry>>)
    ELSE LET t == m[1] * k + carry
         IN  <<t % Base>> \o MagMulLimbC(Tail(m), k, t \div Base)

MagMulLimb(m, k) == IF k = 0 THEN <<>> ELSE MagMulLimbC(m, k, 0)

MagShift(m) == IF m = <<>> THEN <<>> ELSE <<0>> \o m

\* a * b, limb by limb of b
RECURSIVE MagMulBy(_, _)
MagMulBy(a, b) ==
    IF b = <<>> THEN <<>>
    ELSE MagAdd(MagMulLimb(a, b[1]), MagShift(MagMulBy(a, Tail(b))))

MagMul(a, b) == IF Len(a) < Len(b) THEN MagMulBy(b, a) ELSE MagMulBy(a, b)

-----------------------------------------------------------------------------
(* Signed integers.                                                         *)

BigZero == [neg |-> FALSE, mag |-> <<>>]

BigOfInt(i) == IF i < 0 THEN [neg |-> TRUE, mag |-> MagOfNat(-i)]
               ELSE [neg |-> FALSE, mag |-> MagOfNat(i)]

BigIsZero(a) == a.mag = <<>>

BigNeg(a) == IF a.mag = <<>> THEN a ELSE [neg |-> ~a.neg, mag |-> a.mag]

\* a + b for a and b of opposite signs, c the comparison of their magnitudes
BigAddOpposite(a, b, c) ==
    IF c = 0 THEN BigZero
    ELSE IF c > 0 THEN [neg |-> a.neg, mag |-> MagSub(a.mag, b.mag)]
    ELSE [neg |-> b.neg, mag |-> MagSub(b.mag, a.mag)]

BigAdd(a, b) ==
    IF a.neg = b.neg THEN [neg |-> a.neg, mag |-> MagAdd(a.mag, b.mag)]
    ELSE BigAddOpposite(a, b, MagCmp(a.mag, b.mag))

BigSub(a, b) == BigAdd(a, BigNeg(b))

BigOfMag(neg, m) == IF m = <<>> THEN BigZero ELSE [neg |-> neg, mag |-> m]

BigMul(a, b) == BigOfMag(a.neg # b.neg, MagMul(a.mag, b.mag))

BigMulMag(a, m) == BigMul(a, [neg |-> FALSE, mag |-> m])

\* -1, 0, 1 as a < b, a = b, a > b
BigSign(a) == IF a.mag = <<>> THEN 0 ELSE IF a.neg THEN -1 ELSE 1

BigCmp(a, b) == BigSign(BigSub(a, b))

-----------------------------------------------------------------------------
(* Numbers: NaN, or (n + q*sqrt(r)) / d.                                    *)

NaN == [nan |-> TRUE, n |-> BigZero, q |-> BigZero, r |-> 1, d |-> <<1>>]

Num(i) == [nan |-> FALSE, n |-> BigOfInt(i), q |-> BigZero, r |-> 1, d |-> <<1>>]

IsNaN(x) == x.nan

Radicand(x, y) == IF BigIsZero(x.q) THEN y.r ELSE x.r

NumAdd(x, y) ==
    IF x.nan \/ y.nan THEN NaN
    ELSE IF x.d = y.d
    THEN [nan |-> FALSE, n |-> BigAdd(x.n, y.n), q |-> BigAdd(x.q, y.q),
          r |-> Radicand(x, y), d |-> x.d]
    ELSE [nan |-> FALSE,
          n |-> BigAdd(BigMulMag(x.n, y.d), BigMulMag(y.n, x.d)),
          q |-> BigAdd(BigMulMag(x.q, y.d), BigMulMag(y.q, x.d)),
          r |-> Radicand(x, y), d |-> MagMul(x.d, y.d)]

NumNeg(x) == IF x.nan THEN NaN ELSE [x EXCEPT !.n = BigNeg(x.n), !.q = BigNeg(x.q)]

NumSub(x, y) == NumAdd(x, NumNeg(y))

\* x * k for an integer k
NumScale(x, k) ==
    IF x.nan THEN NaN
    ELSE [x EXCEPT !.n = BigMul(x.n, BigOfInt(k)), !.q = BigMul(x.q, BigOfInt(k))]

\* x / k for an integer k > 0
NumOver(x, k) == IF x.nan THEN NaN ELSE [x EXCEPT !.d = MagMul(x.d, MagOfNat(k))]

\* x / y for rational x and rational y # 0
NumDiv(x, y) ==
    IF x.nan \/ y.nan THEN NaN
    ELSE [nan |-> FALSE,
          n |-> BigMul(x.n, [neg |-> y.n.neg, mag |-> y.d]),
          q |-> BigZero, r |-> 1, d |-> MagMul(x.d, y.n.mag)]

IsZero(x) == ~x.nan /\ BigIsZero(x.n) /\ BigIsZero(x.q)

\* equal as reals (NaN equals nothing, as in IEEE 754)
NumEq(x, y) ==
    /\ ~x.nan /\ ~y.nan
    /\ BigMulMag(x.n, y.d) = BigMulMag(y.n, x.d)
    /\ BigMulMag(x.q, y.d) = BigMulMag(y.q, x.d)
    /\ (BigIsZero(x.q) \/ x.r = y.r)

\* the same cell: both NaN, or equal numbers
SameCell(x, y) == (x.nan /\ y.nan) \/ NumEq(x, y)

\* x > y for rationals (False when either is NaN, as in IEEE 754)
NumGt(x, y) ==
    /\ ~x.nan /\ ~y.nan
    /\ BigCmp(BigMulMag(x.n, y.d), BigMulMag(y.n, x.d)) > 0

NumLt(x, y) == NumGt(y, x)


-----------------------------------------------------------------------------
(* Small-integer helpers.                                                   *)

Max(a, b) == IF a > b THEN a ELSE b

RECURSIVE Gcd(_, _)
Gcd(a, b) == IF b = 0 THEN a ELSE Gcd(b, a % b)

RECURSIVE IntPow(_, _)
IntPow(b, e) == IF e = 0 THEN 1 ELSE b * IntPow(b, e - 1)

\* the integer an integer-valued single-limb number holds
IntOf(x) ==
    LET m == IF x.n.mag = <<>> THEN 0 ELSE x.n.mag[1]
    IN  IF x.n.neg THEN -m ELSE m

\* m = coef^2 * rad with rad square-free (0 = 0^2 * 1)
RECURSIVE SqrtLoop(_, _, _)
SqrtLoop(m, p, coef) ==
    IF p * p > m THEN [coef |-> coef, rad |-> m]
    ELSE IF m % (p * p) = 0 THEN SqrtLoop(m \div (p * p), p, coef * p)
    ELSE SqrtLoop(m, p + 1, coef)

SqrtParts(m) == IF m = 0 THEN [coef |-> 0, rad |-> 1] ELSE SqrtLoop(m, 2, 1)

\* sqrt(num / den) for integers num >= 0, den > 0
NumSqrtRatio(num, den) ==
    LET a == SqrtParts(num)
        b == SqrtParts(den)
        g == Gcd(a.rad, b.rad)
        rad == (a.rad \div g) * (b.rad \div g)
        coef == a.coef * g
        dd == b.coef * b.rad
    IN  IF coef = 0 \/ rad = 1
        THEN NumOver(Num(coef), dd)
        ELSE [nan |-> FALSE, n |-> BigZero, q |-> BigOfInt(coef), r |-> rad,
              d |-> MagOfNat(dd)]

-----------------------------------------------------------------------------
(* pandas: the Series operations the program and ta use.  A column is a     *)
(* sequence of numbers, one per row.                                        *)

\* Series.squeeze(): a one-element Series becomes a scalar
squeeze(col) ==
    IF Len(col) = 1 THEN [kind |-> "scalar", values |-> col]
    ELSE [kind |-> "Series", values |-> col]

\* Series.ffill(): a missing value takes the last valid value before it
RECURSIVE FfillAcc(_, _, _)
FfillAcc(col, last, acc) ==
    IF col = <<>> THEN acc
    ELSE LET cur == IF col[1].nan THEN last ELSE col[1]
         IN  FfillAcc(Tail(col), cur, Append(acc, cur))

ffill(col) == FfillAcc(col, NaN, <<>>)

\* Series.diff(1)
diff(col) ==
    [i \in 1..Len(col) |-> IF i = 1 THEN NaN ELSE NumSub(col[i], col[i - 1])]

\* the valid values of the window of w rows ending at row i
Window(col, w, i) ==
    LET lo == Max(1, i - w + 1)
    IN  SelectSeq(SubSeq(col, lo, i), LAMBDA x : ~x.nan)

RECURSIVE SumInts(_)
SumInts(xs) == IF xs = <<>> THEN 0 ELSE IntOf(xs[1]) + SumInts(Tail(xs))

RECURSIVE SumSquares(_)
SumSquares(xs) ==
    IF xs = <<>> THEN 0 ELSE IntOf(xs[1]) * IntOf(xs[1]) + SumSquares(Tail(xs))

\* Series.rolling(w, min_periods).mean() of integer ticks
rolling_mean(col, w, min_periods) ==
    [i \in 1..Len(col) |->
        LET win == Window(col, w, i)
        IN  IF Len(win) < min_periods \/ Len(win) = 0 THEN NaN
            ELSE NumOver(Num(SumInts(win)), Len(win))]

\* Series.rolling(w, min_periods).std(ddof) of integer ticks:
\* sqrt((sum x^2 - (sum x)^2 / cnt) / (cnt - ddof))
rolling_std(col, w, min_periods, ddof) ==
    [i \in 1..Len(col) |->
        LET win == Window(col, w, i)
            cnt == Len(win)
            s == SumInts(win)
        IN  IF cnt < min_periods \/ cnt - ddof <= 0 THEN NaN
            ELSE NumSqrtRatio(cnt * SumSquares(win) - s * s, cnt * (cnt - ddof))]

\* Series.ewm(alpha = p/q, min_periods, adjust=False).mean(), ignore_na=False.
\* weighted: the running average; gap: rows since the last valid row, so the
\* old weight is ((q-p)/q)^gap and the new weight p/q; nobs: valid rows so far.
EwmStep(st, cur, p, q) ==
    LET gap == st.gap + 1
        oldw == IntPow(q - p, gap)
        neww == p * IntPow(q, gap - 1)
    IN  [weighted |->
             IF st.weighted.nan THEN cur
             ELSE IF ~cur.nan
             THEN NumOver(NumAdd(NumScale(st.weighted, oldw), NumScale(cur, neww)),
                          oldw + neww)
             ELSE st.weighted,
         nobs |-> st.nobs + (IF cur.nan THEN 0 ELSE 1),
         gap |-> IF st.weighted.nan \/ ~cur.nan THEN 0 ELSE gap]

EwmOut(st, min_periods) == IF st.nobs >= min_periods THEN st.weighted ELSE NaN

\* n: the number of rows; st: the state after the rows already in acc
RECURSIVE EwmAcc(_, _, _, _, _, _, _)
EwmPush(col, n, p, q, min_periods, st, acc) ==
    EwmAcc(col, n, p, q, min_periods, st, Append(acc, EwmOut(st, min_periods)))

EwmAcc(col, n, p, q, min_periods, st, acc) ==
    IF Len(acc) = n THEN acc
    ELSE EwmPush(col, n, p, q, min_periods, EwmStep(st, col[Len(acc) + 1], p, q), acc)

ewm_mean(col, p, q, min_periods) ==
    EwmAcc(col, Len(col), p, q, min_periods, [weighted |-> NaN, nobs |-> 0, gap |-> 0], <<>>)

-----------------------------------------------------------------------------
(* ta: the indicator functions add_technical_indicators calls, with the     *)
(* library's default arguments (fillna=False).                              *)

SmaWindow == 20
EmaWindow == 20
RsiWindow == 14
MacdFast == 12
MacdSlow == 26
MacdSign == 9
BBWindow == 20
BBDev == 2

\* the SMA with min_periods=0, as with fillna=True
sma_indicator_fillna(close, window) == rolling_mean(close, window, 0)

\* ta.utils._sma: series.rolling(window, min_periods=window).mean()
sma_indicator(close, window) == rolling_mean(close, window, window)

\* the EMA with alpha = 2 / span
ema_indicator_span(close, window) == ewm_mean(close, 2, window, window)

\* ta.utils._ema: series.ewm(span=window, min_periods=window, adjust=False).mean(),
\* alpha = 2 / (span + 1)
ema_indicator(close, window) == ewm_mean(close, 2, window + 1, window)

\* RSIIndicator._run: up and down moves of close.diff(1); a NaN move counts as 0
Positive(dd) == [i \in 1..Len(dd) |-> IF NumGt(dd[i], Num(0)) THEN dd[i] ELSE Num(0)]

Negative(dd) ==
    [i \in 1..Len(dd) |-> NumNeg(IF NumLt(dd[i], Num(0)) THEN dd[i] ELSE Num(0))]

up_direction(close) == Positive(diff(close))

down_direction(close) == Negative(diff(close))

\* ewm(alpha=1/window, min_periods=window, adjust=False).mean() of the moves
emaup(close, window) == ewm_mean(up_direction(close), 1, window, window)

emadn(close, window) == ewm_mean(down_direction(close), 1, window, window)

\* the RSI with 50 where neither gains nor losses occurred
rsi_value_neutral(up, dn) ==
    IF up.nan \/ dn.nan THEN NaN
    ELSE IF IsZero(dn) THEN (IF IsZero(up) THEN Num(50) ELSE Num(100))
    ELSE NumSub(Num(100), NumDiv(Num(100), NumAdd(Num(1), NumDiv(up, dn))))

\* np.where(emadn == 0, 100, 100 - (100 / (1 + emaup / emadn)))
rsi_value(up, dn) ==
    IF up.nan \/ dn.nan THEN NaN
    ELSE IF IsZero(dn) THEN Num(100)
    ELSE NumSub(Num(100), NumDiv(Num(100), NumAdd(Num(1), NumDiv(up, dn))))

RsiOf(up, dn) == [i \in 1..Len(up) |-> rsi_value(up[i], dn[i])]

rsi(close, window) == RsiOf(emaup(close, window), emadn(close, window))

\* MACD._run: emafast - emaslow, and the signal line, an EMA of the MACD line
Difference(fast, slow) == [i \in 1..Len(fast) |-> NumSub(fast[i], slow[i])]

macd(close) == Difference(ema_indicator(close, MacdFast), ema_indicator(close, MacdSlow))

macd_signal(close) == ema_indicator(macd(close), MacdSign)

\* BollingerBands._run: rolling mean and population standard deviation (ddof=0)
bollinger_mavg(close) == rolling_mean(close, BBWindow, BBWindow)

\* the sample deviation (ddof=1)
bollinger_mstd_sample(close) == rolling_std(close, BBWindow, BBWindow, 1)

bollinger_mstd(close) == rolling_std(close, BBWindow, BBWindow, 0)

\* mavg + k * mstd, row by row
Band(mavg, mstd, k) == [i \in 1..Len(mavg) |-> NumAdd(mavg[i], NumScale(mstd[i], k))]

bollinger_hband(close) == Band(bollinger_mavg(close), bollinger_mstd(close), BBDev)

bollinger_lband(close) == Band(bollinger_mavg(close), bollinger_mstd(close), -BBDev)

-----------------------------------------------------------------------------
(* Frames.  A DataFrame is its index and its columns, each column a         *)
(* sequence with one cell per row.  A timestamp is a wall-clock minute      *)
(* count with the time zone it is read in.                                  *)

NRows(frame) == Len(frame.index.values)

Empty(frame) == NRows(frame) = 0

RangeIndex(n) ==
    [kind |-> "RangeIndex", tz |-> "none", name |-> "none",
     values |-> [i \in 1..n |-> i - 1]]

\* minutes east of UTC (US/Eastern at standard time; daylight saving is not modelled)
UtcOffset(tz) == IF tz = "US/Eastern" THEN -300 ELSE 0

\* process_data: results carry the exception raised, "" when none
process_data(frame) ==
    IF frame.index.kind # "DatetimeIndex"
    THEN [raised |-> "AttributeError", frame |-> frame]
    ELSE LET idx == frame.index
             src == IF idx.tz = "naive" THEN "UTC" ELSE idx.tz
             stamps == [i \in 1..Len(idx.values) |->
                          [wall |-> idx.values[i] - UtcOffset(src) + UtcOffset("US/Eastern"),
                           tz |-> "US/Eastern"]]
             column == IF idx.name = "Date" THEN "Datetime" ELSE idx.name
         IN  IF idx.name \in DOMAIN frame.cols
             THEN [raised |-> "ValueError",
                   frame |-> [frame EXCEPT !.index.tz = "US/Eastern",
                                           !.index.values = [i \in 1..Len(stamps) |-> stamps[i].wall]]]
             ELSE [raised |-> "",
                   frame |-> [index |-> RangeIndex(Len(stamps)),
                              cols |-> (column :> stamps) @@ frame.cols]]

\* add_technical_indicators
\* lines 52-67: the eight columns computed from the filled close series
indicator_columns(close_series) ==
    [SMA_20 |-> sma_indicator(close_series, SmaWindow),
     EMA_20 |-> ema_indicator(close_series, EmaWindow),
     RSI |-> rsi(close_series, RsiWindow),
     MACD |-> macd(close_series),
     MACD_Signal |-> macd_signal(close_series),
     BB_Upper |-> bollinger_hband(close_series),
     BB_Lower |-> bollinger_lband(close_series),
     BB_Middle |-> bollinger_mavg(close_series)]

\* lines 48-49: a scalar has no ffill (AttributeError); a Series is filled
close_series_of(squeezed) ==
    IF squeezed.kind = "scalar"
    THEN [raised |-> "AttributeError", values |-> squeezed.values]
    ELSE [raised |-> "", values |-> ffill(squeezed.values)]

with_indicators(frame, filled) ==
    IF filled.raised # ""
    THEN [raised |-> filled.raised, frame |-> frame]
    ELSE [raised |-> "",
          frame |-> [frame EXCEPT !.cols = indicator_columns(filled.values) @@ frame.cols]]

add_technical_indicators(frame) ==
    with_indicators(frame, close_series_of(squeeze(frame.cols["Close"])))

IndicatorColumns ==
    {"SMA_20", "EMA_20", "RSI", "MACD", "MACD_Signal", "BB_Upper", "BB_Lower", "BB_Middle"}

\* Series.max(), .min(), .sum(), .mean(): missing values are skipped
Valid(col) == SelectSeq(col, LAMBDA x : ~x.nan)

RECURSIVE MaxOf(_)
MaxOf(xs) ==
    IF xs = <<>> THEN NaN
    ELSE IF Len(xs) = 1 THEN xs[1]
    ELSE LET m == MaxOf(Tail(xs)) IN IF NumGt(xs[1], m) THEN xs[1] ELSE m

RECURSIVE MinOf(_)
MinOf(xs) ==
    IF xs = <<>> THEN NaN
    ELSE IF Len(xs) = 1 THEN xs[1]
    ELSE LET m == MinOf(Tail(xs)) IN IF NumLt(xs[1], m) THEN xs[1] ELSE m

RECURSIVE SumOf(_)
SumOf(xs) == IF xs = <<>> THEN Num(0) ELSE NumAdd(xs[1], SumOf(Tail(xs)))

col_max(col) == MaxOf(Valid(col))

col_min(col) == MinOf(Valid(col))

col_sum(col) == SumOf(Valid(col))

MeanOf(xs) == IF xs = <<>> THEN NaN ELSE NumOver(SumOf(xs), Len(xs))

col_mean(col) == MeanOf(Valid(col))

ZeroMetrics ==
    [last_close |-> Num(0), change |-> Num(0), pct_change |-> Num(0), high |-> Num(0),
     low |-> Num(0), volume |-> Num(0), avg_volume |-> Num(0)]

\* calculate_metric: any exception inside is reported and answered with zeros
\* lines 30-40
metric_values(frame, last_close, prev_close, change) ==
    [last_close |-> last_close,
     change |-> change,
     pct_change |-> NumScale(NumDiv(change, prev_close), 100),
     high |-> col_max(frame.cols["High"]),
     low |-> col_min(frame.cols["Low"]),
     volume |-> col_sum(frame.cols["Volume"]),
     avg_volume |-> col_mean(frame.cols["Volume"])]

\* iloc[-1] of no rows raises IndexError; change / prev_close is a division of
\* Python floats, which raises ZeroDivisionError when prev_close is 0
metric_of(frame, last_close, prev_close) ==
    IF IsZero(prev_close)
    THEN [failed |-> "ZeroDivisionError", values |-> ZeroMetrics]
    ELSE [failed |-> "",
          values |-> metric_values(frame, last_close, prev_close,
                                   NumSub(last_close, prev_close))]

calculate_metric(frame) ==
    IF Empty(frame)
    THEN [failed |-> "IndexError", values |-> ZeroMetrics]
    ELSE metric_of(frame, frame.cols["Close"][NRows(frame)], frame.cols["Close"][1])

-----------------------------------------------------------------------------
(* Inputs: the sidebar's values and what yfinance may return.               *)

MaxRows == 2
MaxBars == 22
MaxWatchRows == 1

Tickers == {"ADBE", "MSFT"}

TimePeriods == {"1d", "1wk", "1mo", "1y", "max"}

ChartTypes == {"Candlestick", "Line"}

IndicatorNames == {"SMA 20", "EMA 20", "Bollinger Bands", "RSI", "MACD"}

IndicatorChoices == SUBSET IndicatorNames

interval_mapping ==
    [p \in {"1d", "1wk", "1mo", "1y", "max"} |->
        CASE p = "1d" -> "1m"
          [] p = "1wk" -> "30m"
          [] p = "1mo" -> "1d"
          [] p = "1y" -> "1wk"
          [] p = "max" -> "1wk"]

IntervalMinutes(interval) ==
    CASE interval = "1m" -> 1
      [] interval = "30m" -> 30
      [] interval = "1d" -> 1440
      [] interval = "1wk" -> 10080

Intraday(interval) == interval \in {"1m", "30m"}

\* one bar: a close (possibly missing) inside [low, high], and a volume
Bar(close, volume) ==
    [Open |-> IF close.nan THEN Num(1) ELSE close,
     High |-> IF close.nan THEN Num(2) ELSE NumAdd(close, Num(1)),
     Low |-> IF close.nan THEN Num(0) ELSE close,
     Close |-> close,
     Volume |-> Num(volume)]

\* the bars tried: a missing close, a zero close, and a close of one tick with
\* and without volume
Bars == {Bar(NaN, 3), Bar(Num(0), 3), Bar(Num(1), 3), Bar(Num(1), 0)}

PriceColumns == {"Open", "High", "Low", "Close", "Volume"}

\* the frame yfinance returns for these bars: a DatetimeIndex, UTC for
\* intraday intervals and naive dates named "Date" otherwise
RawFrame(bars, tz, name, step) ==
    [index |-> [kind |-> "DatetimeIndex", tz |-> tz, name |-> name,
                values |-> [i \in 1..Len(bars) |-> (i - 1) * step]],
     cols |-> [c \in PriceColumns |-> [i \in 1..Len(bars) |-> bars[i][c]]]]

BarSeqs(n) == UNION {[1..k -> Bars] : k \in 0..n}

\* what yf.download may return for an interval: up to rows bars
Downloads(interval, rows) ==
    {RawFrame(bars, IF Intraday(interval) THEN "UTC" ELSE "naive",
              IF Intraday(interval) THEN "Datetime" ELSE "Date",
              IntervalMinutes(interval)) : bars \in BarSeqs(rows)}

FetchResults(interval) == Downloads(interval, MaxRows)

\* data before line 137 has bound it
NoFrame ==
    [index |-> [kind |-> "unbound", tz |-> "none", name |-> "none", values |-> <<>>],
     cols |-> [c \in PriceColumns |-> <<>>]]

\* line 303
stock_symbols == <<"AAPL", "GOOGL", "AMZN", "MSFT">>

-----------------------------------------------------------------------------
(* The Update handler (lines 135-299), one action per step.                 *)

Init ==
    /\ pc = "idle"
    /\ ticker = "ADBE"
    /\ time_period = "1d"
    /\ data = NoFrame
    /\ metrics = ZeroMetrics
    /\ errors = <<>>
    /\ shown = {}
    /\ calls = <<>>
    /\ normalized = NoFrame
    /\ watched = 0
    /\ uncaught = ""

\* line 135: the run was started by the Update button; the widgets hold what
\* they held in the run before
Update ==
    /\ pc = "idle"
    /\ pc' = "fetch"
    /\ UNCHANGED <<ticker, time_period, data, metrics, errors, shown, calls, normalized,
                   watched, uncaught>>

\* line 135: the run was started by something else, such as an edit of one
\* sidebar widget (lines 119-123); the handler is skipped
SkipUpdate ==
    /\ pc = "idle"
    /\ \E t \in Tickers, p \in TimePeriods :
          /\ t = ticker \/ p = time_period
          /\ ticker' = t
          /\ time_period' = p
    /\ pc' = "watchlist"
    /\ UNCHANGED <<data, metrics, errors, shown, calls, normalized, watched, uncaught>>

\* line 137: fetch_stock_data returns a frame, or yf.download raises and the
\* exception is caught at lines 298-299
Fetch ==
    /\ pc = "fetch"
    /\ \/ /\ data' \in FetchResults(interval_mapping[time_period])
          /\ errors' = errors
          /\ pc' = "check"
       \/ /\ data' = data
          /\ errors' = Append(errors, [text |-> "Error occurred", arg |-> "Exception"])
          /\ pc' = "watchlist"
    /\ calls' = Append(calls, "fetch_stock_data")
    /\ UNCHANGED <<ticker, time_period, metrics, shown, normalized, watched, uncaught>>

\* the handler without lines 138-140
CheckEmptySkipped ==
    /\ pc = "check"
    /\ pc' = "process"
    /\ UNCHANGED <<ticker, time_period, data, metrics, errors, shown, calls, normalized,
                   watched, uncaught>>

\* lines 138-140: an empty frame ends the handler with a message
CheckEmpty ==
    /\ pc = "check"
    /\ IF Empty(data)
       THEN /\ errors' = Append(errors, [text |-> "No data found for ticker", arg |-> ticker])
            /\ pc' = "watchlist"
       ELSE /\ errors' = errors
            /\ pc' = "process"
    /\ UNCHANGED <<ticker, time_period, data, metrics, shown, calls, normalized,
                   watched, uncaught>>

\* line 141; an exception is caught at lines 298-299
ProcessData ==
    /\ pc = "process"
    /\ \E res \in {process_data(data)} :
           /\ data' = res.frame
           /\ pc' = IF res.raised = "" THEN "indicators" ELSE "watchlist"
           /\ errors' = IF res.raised = "" THEN errors
                        ELSE Append(errors, [text |-> "Error occurred", arg |-> res.raised])
    /\ calls' = Append(calls, "process_data")
    /\ UNCHANGED <<ticker, time_period, metrics, shown, normalized, watched, uncaught>>

\* line 142; an exception is caught at lines 298-299
AddIndicators ==
    /\ pc = "indicators"
    /\ \E res \in {add_technical_indicators(data)} :
           /\ data' = res.frame
           /\ pc' = IF res.raised = "" THEN "metric" ELSE "watchlist"
           /\ errors' = IF res.raised = "" THEN errors
                        ELSE Append(errors, [text |-> "Error occurred", arg |-> res.raised])
    /\ calls' = Append(calls, "add_technical_indicators")
    /\ UNCHANGED <<ticker, time_period, metrics, shown, normalized, watched, uncaught>>

\* line 144
CalculateMetric ==
    /\ pc = "metric"
    /\ \E res \in {calculate_metric(data)} :
           /\ metrics' = res.values
           /\ errors' = IF res.failed = "" THEN errors
                        ELSE Append(errors, [text |-> "Error in calculate_metric",
                                             arg |-> res.failed])
    /\ calls' = Append(calls, "calculate_metric")
    /\ pc' = "show"
    /\ UNCHANGED <<ticker, time_period, data, shown, normalized, watched, uncaught>>

\* the three metrics with a delta that divides nothing
ShowMetricsNoDivision ==
    /\ pc = "show"
    /\ shown' = shown \cup {"Last Price", "Day's Range", "Volume"}
    /\ pc' = "charts"
    /\ UNCHANGED <<ticker, time_period, data, metrics, errors, calls, normalized,
                   watched, uncaught>>

\* lines 147-161: the three metrics; the third divides volume by avg_volume,
\* two Python numbers, so a zero avg_volume raises ZeroDivisionError
ShowMetrics ==
    /\ pc = "show"
    /\ IF IsZero(metrics.avg_volume)
       THEN /\ shown' = shown \cup {"Last Price", "Day's Range"}
            /\ errors' = Append(errors, [text |-> "Error occurred", arg |-> "ZeroDivisionError"])
            /\ pc' = "watchlist"
       ELSE /\ shown' = shown \cup {"Last Price", "Day's Range", "Volume"}
            /\ errors' = errors
            /\ pc' = "charts"
    /\ UNCHANGED <<ticker, time_period, data, metrics, calls, normalized, watched, uncaught>>

\* one st.plotly_chart call per chart: line 266, then lines 282 and 295
ChartCalls(indicators) ==
    <<"plotly_chart">> \o (IF "RSI" \in indicators THEN <<"plotly_chart">> ELSE <<>>)
                       \o (IF "MACD" \in indicators THEN <<"plotly_chart">> ELSE <<>>)

\* lines 164-295: the price chart, then the RSI and MACD charts when selected;
\* chart_type and indicators are the sidebar's values, first read here. The
\* first data['Datetime'] comes before any st.plotly_chart, so a frame without
\* that column draws nothing
RenderCharts ==
    /\ pc = "charts"
    /\ \E chart_type \in ChartTypes, indicators \in IndicatorChoices :
          IF "Datetime" \notin DOMAIN data.cols
          THEN /\ shown' = shown
               /\ calls' = calls
               /\ errors' = Append(errors, [text |-> "Error occurred", arg |-> "KeyError"])
          ELSE /\ shown' = shown \cup {"Price Chart " \o chart_type}
                                 \cup (IF "RSI" \in indicators THEN {"RSI Chart"} ELSE {})
                                 \cup (IF "MACD" \in indicators THEN {"MACD Chart"} ELSE {})
               /\ calls' = calls \o ChartCalls(indicators)
               /\ errors' = errors
    /\ pc' = "watchlist"
    /\ UNCHANGED <<ticker, time_period, data, metrics, normalized, watched, uncaught>>

\* lines 308-312 on the processed frame. change and pct_change are the script's
\* globals that line 144 bound, and lines 310-311 bind them again;
\* change / open_price divides two Python floats outside any try, after change
\* has been bound
watch_metrics(symbol, last_price, open_price, change) ==
    IF IsZero(open_price)
    THEN [uncaught |-> "ZeroDivisionError", shown |-> {},
          metrics |-> [metrics EXCEPT !.change = change]]
    ELSE [uncaught |-> "", shown |-> {"sidebar metric " \o symbol},
          metrics |-> [metrics EXCEPT !.change = change,
                                      !.pct_change = NumScale(NumDiv(change, open_price), 100)]]

watch_prices(symbol, last_price, open_price) ==
    watch_metrics(symbol, last_price, open_price, NumSub(last_price, open_price))

watch_outcome(symbol, res) ==
    IF res.raised # ""
    THEN [uncaught |-> res.raised, shown |-> {}, metrics |-> metrics]
    ELSE watch_prices(symbol, res.frame.cols["Close"][NRows(res.frame)],
                      res.frame.cols["Open"][1])

\* line 305: what fetch_stock_data(symbol, '1d', '1m') may return
WatchFrames == Downloads(interval_mapping["1d"], MaxWatchRows)

\* lines 307-312 for every non-empty frame the fetch may return
WatchOutcomes(symbol) ==
    {watch_outcome(symbol, process_data(frame)) : frame \in {f \in WatchFrames : ~Empty(f)}}

\* lines 304-312: one turn of the watchlist loop, which every run reaches; an
\* exception here is caught by nothing and ends the run
Watchlist ==
    /\ pc = "watchlist"
    /\ \/ /\ calls' = Append(calls, "fetch_stock_data")
          /\ uncaught' = "Exception"
          /\ pc' = "done"
          /\ UNCHANGED <<shown, watched, metrics>>
       \/ /\ \E frame \in WatchFrames : Empty(frame)
          /\ calls' = Append(calls, "fetch_stock_data")
          /\ watched' = watched + 1
          /\ pc' = IF watched + 1 = Len(stock_symbols) THEN "done" ELSE "watchlist"
          /\ UNCHANGED <<shown, uncaught, metrics>>
       \/ \E out \in WatchOutcomes(stock_symbols[watched + 1]) :
             /\ calls' = calls \o <<"fetch_stock_data", "process_data">>
             /\ shown' = shown \cup out.shown
             /\ metrics' = out.metrics
             /\ uncaught' = out.uncaught
             /\ watched' = IF out.uncaught = "" THEN watched + 1 ELSE watched
             /\ pc' = IF out.uncaught # "" \/ watched + 1 = Len(stock_symbols)
                      THEN "done" ELSE "watchlist"
    /\ UNCHANGED <<ticker, time_period, data, errors, normalized>>

\* the run ends; the next interaction starts the script again from the top,
\* its globals unbound, the sidebar's widgets as they were
Rerun ==
    /\ pc = "done"
    /\ pc' = "idle"
    /\ data' = NoFrame
    /\ metrics' = ZeroMetrics
    /\ errors' = <<>>
    /\ shown' = {}
    /\ calls' = <<>>
    /\ watched' = 0
    /\ uncaught' = ""
    /\ UNCHANGED <<ticker, time_period, normalized>>

Next ==
    \/ Update
    \/ SkipUpdate
    \/ Fetch
    \/ CheckEmpty
    \/ ProcessData
    \/ AddIndicators
    \/ CalculateMetric
    \/ ShowMetrics
    \/ RenderCharts
    \/ Watchlist
    \/ Rerun

Spec == Init /\ [][Next]_vars

-----------------------------------------------------------------------------
(* add_technical_indicators on longer series: the frames process_data       *)
(* returns for daily bars whose closes start at 100 ticks and move by a     *)
(* repeating pattern of two steps, with or without a missing close.       *)

Steps == {-2, 0, 1}

StepPatterns == [1..2 -> Steps]

MissingLayouts == {{}, {1}, {2}}

RECURSIVE CloseAt(_, _)
CloseAt(pattern, i) ==
    IF i = 1 THEN 100 ELSE CloseAt(pattern, i - 1) + pattern[((i - 2) % 2) + 1]

PatternBars(pattern, n, missing) ==
    [i \in 1..n |-> Bar(IF i \in missing THEN NaN ELSE Num(CloseAt(pattern, i)), 3)]

IndicatorInputs ==
    {process_data(RawFrame(PatternBars(pattern, n, missing), "naive", "Date", 1440)).frame :
        pattern \in StepPatterns, n \in 1..MaxBars, missing \in MissingLayouts}

InitIndicators ==
    /\ pc = "indicators"
    /\ ticker = "ADBE"
    /\ time_period = "1mo"
    /\ data \in IndicatorInputs
    /\ metrics = ZeroMetrics
    /\ errors = <<>>
    /\ shown = {}
    /\ calls = <<"fetch_stock_data", "process_data">>
    /\ normalized = NoFrame
    /\ watched = 0
    /\ uncaught = ""

SpecIndicators == InitIndicators /\ [][AddIndicators]_vars

-----------------------------------------------------------------------------
(* process_data applied to its own result.                                  *)

NormalizeInputs ==
    {RawFrame(bars, tz, name, 1440) :
        bars \in BarSeqs(MaxRows) \ {<<>>},
        tz \in {"naive", "UTC", "US/Eastern"},
        name \in {"Date", "Datetime"}}

InitNormalize ==
    /\ pc = "raw"
    /\ ticker = "ADBE"
    /\ time_period = "1mo"
    /\ data \in NormalizeInputs
    /\ metrics = ZeroMetrics
    /\ errors = <<>>
    /\ shown = {}
    /\ calls = <<>>
    /\ normalized = NoFrame
    /\ watched = 0
    /\ uncaught = ""

\* process_data(raw)
Normalize ==
    /\ pc = "raw"
    /\ \E res \in {process_data(data)} :
           /\ data' = res.frame
           /\ normalized' = res.frame
           /\ errors' = IF res.raised = "" THEN errors
                        ELSE Append(errors, [text |-> "process_data raised", arg |-> res.raised])
           /\ pc' = IF res.raised = "" THEN "once" ELSE "failed"
    /\ calls' = Append(calls, "process_data")
    /\ UNCHANGED <<ticker, time_period, metrics, shown, watched, uncaught>>

\* process_data(process_data(raw))
NormalizeAgain ==
    /\ pc = "once"
    /\ \E res \in {process_data(data)} :
           /\ data' = res.frame
           /\ errors' = IF res.raised = "" THEN errors
                        ELSE Append(errors, [text |-> "process_data raised", arg |-> res.raised])
    /\ pc' = "twice"
    /\ calls' = Append(calls, "process_data")
    /\ UNCHANGED <<ticker, time_period, metrics, shown, normalized, watched, uncaught>>

NextNormalize == Normalize \/ NormalizeAgain

SpecNormalize == InitNormalize /\ [][NextNormalize]_vars

-----------------------------------------------------------------------------
(* Properties.                                                              *)

Close == data.cols["Close"]

Filled == ffill(Close)

AllPresent(col) == \A i \in 1..Len(col) : ~col[i].nan

Defined(col) == {i \in 1..Len(col) : ~col[i].nan}

\* add_technical_indicators has returned normally
IndicatorsAdded == pc = "metric" /\ "SMA_20" \in DOMAIN data.cols

\* C1: on n >= 20 closes, all present, SMA_20 and EMA_20 each have exactly
\* n - 20 + 1 defined values, and the undefined ones are exactly rows 0..18.
C1_DefinedCount ==
    (IndicatorsAdded /\ NRows(data) >= SmaWindow /\ AllPresent(Close)) =>
        \A name \in {"SMA_20", "EMA_20"} :
            /\ Cardinality(Defined(data.cols[name])) = NRows(data) - SmaWindow + 1
            /\ Defined(data.cols[name]) = SmaWindow..NRows(data)

C1_Witness ==
    /\ IndicatorsAdded /\ NRows(data) > SmaWindow /\ AllPresent(Close)
    /\ ~data.cols["EMA_20"][NRows(data)].nan
    /\ data.cols["SMA_20"][SmaWindow - 1].nan

WindowOf(name) ==
    CASE name \in {"SMA_20", "EMA_20"} -> SmaWindow
      [] name = "RSI" -> RsiWindow
      [] name = "MACD" -> MacdSlow
      [] name = "MACD_Signal" -> MacdSign
      [] OTHER -> BBWindow

\* C2: for every series of n >= 1 rows add_technical_indicators raises nothing
\* and leaves eight indicator columns of n entries each, all undefined when n is
\* below the indicator's window.
C2_NeverRaises ==
    (Len(calls) = 3 /\ calls[3] = "add_technical_indicators" /\ NRows(data) >= 1) =>
        /\ errors = <<>>
        /\ \A name \in IndicatorColumns :
              /\ name \in DOMAIN data.cols
              /\ Len(data.cols[name]) = NRows(data)
              /\ NRows(data) < WindowOf(name) => Defined(data.cols[name]) = {}

\* mean of rows lo..hi of a column of integer ticks
RECURSIVE TickSum(_, _, _)
TickSum(col, lo, hi) == IF lo > hi THEN 0 ELSE IntOf(col[lo]) + TickSum(col, lo + 1, hi)

MeanOfRows(col, lo, hi) == NumOver(Num(TickSum(col, lo, hi)), hi - lo + 1)

\* a * c + (1 - a) * prev with a = 2/21
EmaRule(c, prev) == NumOver(NumAdd(NumScale(c, 2), NumScale(prev, 19)), 21)

EmaRuleHolds(col, ema) ==
    \A i \in (EmaWindow + 1)..Len(col) : NumEq(ema[i], EmaRule(col[i], ema[i - 1]))

\* C3 as stated: EMA_20 at row 19 is the mean of the first 20 closes, and from
\* row 20 on EMA_20[i] = a*C[i] + (1-a)*EMA_20[i-1] with a = 2/21.
C3_SmaSeed ==
    (IndicatorsAdded /\ NRows(data) >= EmaWindow /\ AllPresent(Close)) =>
        /\ NumEq(data.cols["EMA_20"][EmaWindow], MeanOfRows(Close, 1, EmaWindow))
        /\ EmaRuleHolds(Close, data.cols["EMA_20"])

\* the recursion seeded with the first close: e[1] = C[1], e[i] = rule(C[i], e[i-1])
RECURSIVE SeededEma(_, _)
SeededEma(col, i) == IF i = 1 THEN col[1] ELSE EmaRule(col[i], SeededEma(col, i - 1))

\* C3 amended: EMA_20 at row 19 is the value of the recursion seeded with the
\* first close, e[0] = C[0], e[j] = a*C[j] + (1-a)*e[j-1]; from row 20 on
\* EMA_20[i] = a*C[i] + (1-a)*EMA_20[i-1] with a = 2/21.
C3_FirstCloseSeed ==
    (IndicatorsAdded /\ NRows(data) >= EmaWindow /\ AllPresent(Close)) =>
        /\ NumEq(data.cols["EMA_20"][EmaWindow], SeededEma(Close, EmaWindow))
        /\ EmaRuleHolds(Close, data.cols["EMA_20"])

C3_Witness ==
    /\ IndicatorsAdded /\ NRows(data) > EmaWindow /\ AllPresent(Close)
    /\ ~NumEq(data.cols["EMA_20"][EmaWindow], data.cols["SMA_20"][EmaWindow])
    /\ ~data.cols["EMA_20"][NRows(data)].nan

\* no close up to row i is below the close before it
NoLossUpTo(col, i) == \A j \in 2..i : ~NumLt(col[j], col[j - 1])

StrictlyIncreasing(col) == \A j \in 2..Len(col) : NumGt(col[j], col[j - 1])

Flat(col) == \A j \in 2..Len(col) : NumEq(col[j], col[j - 1])

\* C4: wherever RSI is defined (from row 13 on) and the smoothed average loss
\* is 0, RSI is 100; so it is 100 on a strictly increasing series and on a
\* flat one.
C4_RsiNoLoss ==
    IndicatorsAdded =>
        \A i \in RsiWindow..NRows(data) :
            /\ IsZero(emadn(Filled, RsiWindow)[i]) => NumEq(data.cols["RSI"][i], Num(100))
            /\ NoLossUpTo(Filled, i) => IsZero(emadn(Filled, RsiWindow)[i])
            /\ (StrictlyIncreasing(Filled) \/ Flat(Filled)) =>
                   NumEq(data.cols["RSI"][i], Num(100))

C4_Witness ==
    /\ IndicatorsAdded /\ NRows(data) > RsiWindow /\ Flat(Filled)
    /\ IsZero(emaup(Filled, RsiWindow)[NRows(data)])
    /\ NumEq(data.cols["RSI"][NRows(data)], Num(100))

\* the square of a number of the form q*sqrt(r)/d, as the fraction num/den
SquareNum(x) == BigMul(BigMul(x.q, x.q), BigOfInt(x.r))

SquareDen(x) == MagMul(x.d, x.d)

RECURSIVE TickSquares(_, _, _)
TickSquares(col, lo, hi) ==
    IF lo > hi THEN 0 ELSE IntOf(col[lo]) * IntOf(col[lo]) + TickSquares(col, lo + 1, hi)

\* w * (sum of squares) - (sum)^2 over the w rows ending at i: w^2 times the
\* population variance
ScaledVariance(col, w, i) ==
    w * TickSquares(col, i - w + 1, i) - TickSum(col, i - w + 1, i) * TickSum(col, i - w + 1, i)

\* width = 2 * k * sigma with sigma >= 0 the population deviation of the w rows
\* ending at i: width is a non-negative pure root and
\* width^2 * w^2 = (2k)^2 * ScaledVariance
IsBandWidth(width, col, w, k, i) ==
    /\ ~width.nan /\ BigIsZero(width.n) /\ ~width.q.neg
    /\ BigMul(SquareNum(width), BigOfInt(w * w)) =
           BigMulMag(BigOfInt(4 * k * k * ScaledVariance(col, w, i)), SquareDen(width))

\* C5: BB_Middle is SMA_20 at every row, and where the bands are defined
\* BB_Upper - BB_Lower = 2*k*sigma with k = 2 and sigma the standard deviation
\* of the 20 closes ending at the row.
C5_Bands ==
    IndicatorsAdded =>
        \A i \in 1..NRows(data) :
            /\ SameCell(data.cols["BB_Middle"][i], data.cols["SMA_20"][i])
            /\ data.cols["BB_Upper"][i].nan = data.cols["BB_Lower"][i].nan
            /\ ~data.cols["BB_Upper"][i].nan =>
                   IsBandWidth(NumSub(data.cols["BB_Upper"][i], data.cols["BB_Lower"][i]),
                               Filled, BBWindow, BBDev, i)

C5_Witness ==
    /\ IndicatorsAdded /\ NRows(data) > BBWindow
    /\ ~data.cols["BB_Upper"][NRows(data)].nan
    /\ ~NumEq(data.cols["BB_Upper"][NRows(data)], data.cols["BB_Lower"][NRows(data)])

\* calculate_metric has returned
\* calculate_metric has been called in this run
MetricCalled == Len(calls) >= 4 /\ calls[4] = "calculate_metric"

\* metrics holds what calculate_metric returned: the watchlist loop, which
\* binds change and pct_change again, has not started
MetricsComputed == MetricCalled /\ (pc \in {"show", "charts"} \/ (pc = "watchlist" /\ watched = 0))

TrueAggregates ==
    /\ SameCell(metrics.last_close, Close[NRows(data)])
    /\ SameCell(metrics.high, col_max(data.cols["High"]))
    /\ SameCell(metrics.low, col_min(data.cols["Low"]))
    /\ SameCell(metrics.volume, col_sum(data.cols["Volume"]))
    /\ SameCell(metrics.avg_volume, col_mean(data.cols["Volume"]))

\* C6: calculate_metric gives change = lastClose - firstClose and
\* pctChange = change / firstClose * 100; when firstClose is 0 pctChange is
\* undefined and the other fields are the true aggregates of the series.
C6_ZeroFirstClose ==
    MetricsComputed =>
        /\ SameCell(metrics.change, NumSub(Close[NRows(data)], Close[1]))
        /\ IF IsZero(Close[1])
           THEN metrics.pct_change.nan /\ TrueAggregates
           ELSE SameCell(metrics.pct_change,
                         NumScale(NumDiv(metrics.change, Close[1]), 100))

\* C7: process_data applied to a result of process_data raises nothing and
\* returns a frame equal to the one it was given.
C7_Idempotent ==
    pc = "twice" => (errors = <<>> /\ data = normalized)

NoGapAfterFirstValid(col) ==
    \A i \in 1..Len(col) : \A j \in i..Len(col) : ~col[i].nan => ~col[j].nan

\* C8: once process_data has returned, no row after the first valid close has
\* a missing close, so calculate_metric's lastClose is defined whenever the
\* series has a valid close.
C8_NoMissingClose ==
    /\ pc \in {"indicators", "metric", "show", "charts"} => NoGapAfterFirstValid(Close)
    /\ (MetricsComputed /\ Defined(Close) # {}) => ~metrics.last_close.nan

HandlerCalls == {"add_technical_indicators", "calculate_metric", "plotly_chart"}

NoDataMessage == [text |-> "No data found for ticker", arg |-> ticker]

\* the handler has finished and the watchlist loop has not started
HandlerEnded == pc = "watchlist" /\ watched = 0 /\ Len(calls) >= 1

\* C9: when the handler's fetch returns no rows, the handler ends with one
\* message that names the ticker and without having called process_data,
\* add_technical_indicators, calculate_metric or drawn anything (the only
\* later process_data calls are the watchlist's, each right after a watchlist
\* fetch); when it returns rows, process_data runs before
\* add_technical_indicators and calculate_metric.
C9_EmptyFetch ==
    /\ (data # NoFrame /\ Empty(data)) =>
          /\ pc \in {"check", "watchlist", "done"}
          /\ calls[1] = "fetch_stock_data"
          /\ (pc = "check" \/ HandlerEnded) => (calls = <<"fetch_stock_data">> /\ shown = {})
          /\ pc # "check" => errors = <<NoDataMessage>>
          /\ shown \cap {"Last Price", "Day's Range", "Volume"} = {}
          /\ \A k \in 2..Len(calls) :
                /\ calls[k] \notin HandlerCalls
                /\ calls[k] = "process_data" => (k >= 3 /\ calls[k - 1] = "fetch_stock_data")
    /\ \A k \in 1..Len(calls) :
          calls[k] \in HandlerCalls =>
              /\ ~Empty(data)
              /\ NoDataMessage \notin {errors[i] : i \in 1..Len(errors)}
              /\ k > 2 /\ calls[2] = "process_data"

C9_Witness ==
    /\ HandlerEnded /\ data # NoFrame /\ Empty(data) /\ ticker = "MSFT"
    /\ errors = <<NoDataMessage>> /\ calls = <<"fetch_stock_data">>

ChartNames == {"Price Chart " \o c : c \in ChartTypes} \cup {"RSI Chart", "MACD Chart"}

DivisionMessage == [text |-> "Error occurred", arg |-> "ZeroDivisionError"]

\* C10: a failure inside calculate_metric returns seven zeros; whenever
\* avg_volume is 0 the Volume metric's division fails, the request ends with the
\* error message and no chart is drawn; a chart is drawn only with a non-zero
\* avg_volume.
C10_ZeroAverage ==
    /\ (MetricsComputed /\ \E i \in 1..Len(errors) : errors[i].text = "Error in calculate_metric")
          => metrics = ZeroMetrics
    /\ (MetricCalled /\ IsZero(metrics.avg_volume)) =>
          /\ pc \in {"show", "watchlist", "done"}
          /\ shown \cap (ChartNames \cup {"Volume"}) = {}
          /\ "plotly_chart" \notin {calls[k] : k \in 1..Len(calls)}
          /\ pc # "show" => errors[Len(errors)] = DivisionMessage
    /\ (shown \cap ChartNames # {}) => (MetricCalled /\ ~IsZero(metrics.avg_volume))

C10_Witness ==
    /\ HandlerEnded /\ MetricsComputed /\ metrics = ZeroMetrics
    /\ errors = <<[text |-> "Error in calculate_metric", arg |-> "ZeroDivisionError"],
                  DivisionMessage>>
    /\ shown = {"Last Price", "Day's Range"}

=============================================================================
